---------------------------- MODULE Spec2Model ----------------------------
(***************************************************************************)
(* A model of analytics-python's buffering and delivery core:              *)
(*   analytics/client.py    Client: the queue, _enqueue, _should_flush,    *)
(*                          flush, the outcome callbacks                   *)
(*   analytics/consumer.py  Consumer: run, upload, next, request           *)
(*   analytics/request.py   post                                           *)
(*                                                                         *)
(* How the source is read.                                                 *)
(*  - consumer.py and request.py are modelled as Python executes them.     *)
(*    In consumer.py `log` is logging.getLogger('analytics'), a Logger     *)
(*    object: the calls log('debug', ...) in run and log('error') in       *)
(*    upload's except clause raise TypeError ('Logger' object is not       *)
(*    callable).                                                           *)
(*  - client.py is half-way from a deque to queue.Queue: the queue is      *)
(*    queue.Queue(max_queue_size) (line 122) and flush uses qsize/join,    *)
(*    but _enqueue still says len(self.queue) and self.queue.append.       *)
(*    These are read as the queue's depth (qsize) and its insertion (put,  *)
(*    which waits while a bounded Queue is full).  The attributes          *)
(*    max_queue_size, flush_at, flush_after and last_flushed, which no     *)
(*    line of client.py assigns, are read as the client's configuration.   *)
(*    As written, every one of these lines raises instead (TypeError,      *)
(*    NameError or AttributeError).                                        *)
(*  - The producers' calls are modelled by Client.track; identify and      *)
(*    alias check their arguments and reach _enqueue in the same way.      *)
(*    track's self._check_for_secret() is read as _check_write_key.        *)
(***************************************************************************)
EXTENDS Integers, Sequences, FiniteSets, TLC

\* ------------------------------------------------------------- bounds
\* max_queue_size, upload_size, flush_at and flush_after are the client's
\* and the consumer's configuration, scaled down; MaxTime bounds the clock
\* and MaxCalls the number of track calls.
MaxQueueSize == 2
UploadSize == 2
FlushAt == 2
FlushAfter == 0
MaxTime == 1
MaxCalls == 3

\* ------------------------------------------------- program constants
Retries == 3

Producers == {"p1", "p2"}
NoTime == -1

VARIABLES
  queue,        \* Queue.queue: the events waiting, oldest first
  unfinished,   \* Queue.unfinished_tasks
  send,         \* Client.send
  write_key,    \* whether Client.write_key is set
  last_flushed, \* Client.last_flushed (NoTime: None)
  now,          \* the last value datetime.now() returned
  submittedStat,\* Client.stats.submitted
  tracksStat,   \* Client.stats.tracks
  ppc,          \* each producer's position in track and _enqueue
  psubmitted,   \* _enqueue's local `submitted`
  ptmp,         \* the value loaded by a stats counter's += 1
  calls,        \* number of _enqueue calls started
  pevent,       \* the event a producer's _enqueue put on the queue (0: none)
  accepted,     \* the events whose _enqueue returned True
  rejected,     \* number of _enqueue calls that returned False
  nextId,       \* identity of the next event put on the queue
  wpc,          \* the consumer's position
  items,        \* Consumer.next's local `items`, then upload's `batch`
  attempt,      \* Consumer.request's `attempt`
  posts,        \* post() calls made for the current batch
  marked,       \* task_done() calls made by the current upload
  batches,      \* the batches Consumer.next returned, in order
  \* The outcome counters below are written only by _on_successful_flush and
  \* _on_failed_flush, which only client.py's request() reaches; nothing
  \* calls request(), and Consumer delivers through analytics.request.post.
  successCalls, \* invocations of a registered success callback
  failureCalls, \* invocations of a registered failure callback
  successfulStat, \* Client.stats.successful
  failedStat,   \* Client.stats.failed
  atStart,      \* the four outcome counters as they were when the current
                \* upload was entered
  result        \* how the last finished upload ended: "none" before the first,
                \* "true" (returned True) or "raised"

vars == <<queue, unfinished, send, write_key, last_flushed, now,
          submittedStat, tracksStat, ppc, psubmitted, ptmp, pevent, calls,
          accepted, rejected, nextId, wpc, items, attempt, posts, marked,
          batches, result, successCalls, failureCalls, successfulStat,
          failedStat, atStart>>

clientVars == <<send, write_key, last_flushed>>
producerVars == <<ppc, psubmitted, ptmp, pevent, calls, accepted, rejected>>
workerVars == <<wpc, items, attempt, posts, marked, batches, result, atStart>>
outcomeVars == <<successCalls, failureCalls, successfulStat, failedStat,
                 tracksStat>>

Outcomes(sc, fc, ss, fs) ==
  [successCalls |-> sc, failureCalls |-> fc, successful |-> ss, failed |-> fs]

\* Client.__init__ and Consumer.__init__
Init ==
  /\ queue = <<>>
  /\ unfinished = 0
  /\ send \in BOOLEAN
  /\ write_key \in BOOLEAN
  /\ last_flushed \in {NoTime, 0}
  /\ now = 0
  /\ submittedStat = 0
  /\ tracksStat = 0
  /\ ppc = [p \in Producers |-> "idle"]
  /\ psubmitted = [p \in Producers |-> FALSE]
  /\ ptmp = [p \in Producers |-> 0]
  /\ calls = 0
  /\ pevent = [p \in Producers |-> 0]
  /\ accepted = {}
  /\ rejected = 0
  /\ nextId = 1
  /\ wpc = "idle"
  /\ items = <<>>
  /\ attempt = 0
  /\ posts = 0
  /\ marked = 0
  /\ batches = <<>>
  /\ result = "none"
  /\ successCalls = 0
  /\ failureCalls = 0
  /\ successfulStat = 0
  /\ failedStat = 0
  /\ atStart = Outcomes(0, 0, 0, 0)

\* ------------------------------------------------------------ the queue
\* queue.Queue(max_queue_size).qsize(), read by len(self.queue)
QueueDepth(q) == Len(q)

\* the insertion of an unbounded container: it never waits
QueueCanPutUnbounded(q) == TRUE

\* Queue.put waits while a bounded queue holds maxsize items
QueueCanPut(q) == Len(q) < MaxQueueSize

\* Queue.put: the item goes to the tail
QueuePut(q, e) == Append(q, e)

\* Queue.empty()
QueueEmpty(q) == Len(q) = 0

\* a get that hands out the newest item
QueueGetItemNewest(q) == q[Len(q)]

\* Queue.get: the head is taken
QueueGetItem(q) == Head(q)
QueueGetRest(q) == Tail(q)

\* ----------------------------------------------------------- the client
\* _should_flush with the boundary elapsed = flush_after counted as stale
ShouldFlushAtBoundary(depth, lf, t) ==
  depth >= FlushAt \/ lf = NoTime \/ t - lf >= FlushAfter

\* _should_flush with the size threshold reached one event early
ShouldFlushOneEarly(depth, lf, t) ==
  depth >= FlushAt - 1 \/ lf = NoTime \/ t - lf > FlushAfter

\* Client._should_flush
ShouldFlush(depth, lf, t) ==
  LET full == depth >= FlushAt
      stale == IF lf = NoTime THEN TRUE ELSE t - lf > FlushAfter
  IN  full \/ stale

\* _enqueue's `return submitted`; its locals are gone. Back in track:
\* if self._enqueue(action): self.stats.tracks += 1 -- the attribute is
\* loaded ...
EnqueueReturn(p) ==
  /\ ppc' = [ppc EXCEPT ![p] = IF psubmitted[p] THEN "kind_write" ELSE "idle"]
  /\ psubmitted' = [psubmitted EXCEPT ![p] = FALSE]
  /\ ptmp' = [ptmp EXCEPT ![p] = IF psubmitted[p] THEN tracksStat ELSE 0]
  /\ pevent' = [pevent EXCEPT ![p] = 0]
  /\ accepted' = IF psubmitted[p] THEN accepted \cup {pevent[p]} ELSE accepted
  /\ rejected' = IF psubmitted[p] THEN rejected ELSE rejected + 1

\* the arguments of a track call: whether user_id and event are non-empty
\* and whether properties and context are dictionaries
TrackArgs ==
  [user_id : BOOLEAN, event : BOOLEAN, properties : BOOLEAN, context : BOOLEAN]

\* Client.track's checks: _check_write_key, then user_id, event, properties
\* and context (identify and alias check their arguments the same way)
TrackValid(key, a) == key /\ a.user_id /\ a.event /\ a.properties /\ a.context

\* a failing track call that has nevertheless put an event on the queue
TrackRaiseAfterPut(p) ==
  /\ ppc[p] = "idle"
  /\ calls < MaxCalls
  /\ calls' = calls + 1
  /\ QueueCanPut(queue)
  /\ queue' = QueuePut(queue, nextId)
  /\ unfinished' = unfinished + 1
  /\ nextId' = nextId + 1
  /\ UNCHANGED <<clientVars, now, submittedStat, ppc, psubmitted, ptmp,
                 pevent, accepted, rejected, workerVars, outcomeVars>>

\* Client.track raises before it builds the action
TrackRaise(p) ==
  /\ ppc[p] = "idle"
  /\ calls < MaxCalls
  /\ calls' = calls + 1
  /\ UNCHANGED <<queue, unfinished, clientVars, now, submittedStat, ppc,
                 psubmitted, ptmp, pevent, accepted, rejected, nextId,
                 workerVars, outcomeVars>>

\* the send test never taken
SendDisabledNever(s) == FALSE

\* if not self.send: return False
SendDisabled(s) == ~s

\* Client._enqueue is entered (by identify, track or alias); send is tested
EnqueueCall(p) ==
  /\ ppc[p] = "idle"
  /\ calls < MaxCalls
  /\ calls' = calls + 1
  /\ IF SendDisabled(send)
       THEN /\ rejected' = rejected + 1
            /\ UNCHANGED <<ppc, psubmitted, pevent>>
       ELSE /\ ppc' = [ppc EXCEPT ![p] = "check"]
            /\ UNCHANGED <<psubmitted, pevent, rejected>>
  /\ UNCHANGED <<queue, unfinished, clientVars, now, submittedStat, ptmp,
                 accepted, nextId, workerVars, outcomeVars>>

\* Client.track is called
TrackCall(p) ==
  \E a \in TrackArgs :
    IF TrackValid(write_key, a) THEN EnqueueCall(p) ELSE TrackRaise(p)

\* the depth test with the refused call returning at once, policy skipped
EnqueueCheckReturnsWhenFull(p) ==
  /\ ppc[p] = "check"
  /\ IF QueueDepth(queue) < MaxQueueSize
       THEN /\ ppc' = [ppc EXCEPT ![p] = "append"]
            /\ UNCHANGED <<psubmitted, ptmp, pevent, accepted, rejected>>
       ELSE EnqueueReturn(p)
  /\ UNCHANGED <<queue, unfinished, clientVars, now, submittedStat, calls,
                 nextId, workerVars, outcomeVars>>

\* if len(self.queue) < self.max_queue_size: ... else: log('warn', ...)
EnqueueCheck(p) ==
  /\ ppc[p] = "check"
  /\ ppc' = [ppc EXCEPT ![p] =
               IF QueueDepth(queue) < MaxQueueSize THEN "append"
                                                   ELSE "should_flush"]
  /\ UNCHANGED <<queue, unfinished, clientVars, now, submittedStat,
                 psubmitted, ptmp, pevent, calls, accepted, rejected, nextId,
                 workerVars, outcomeVars>>

\* self.queue.append(action)
EnqueueAppend(p) ==
  /\ ppc[p] = "append"
  /\ QueueCanPut(queue)
  /\ queue' = QueuePut(queue, nextId)
  /\ unfinished' = unfinished + 1
  /\ pevent' = [pevent EXCEPT ![p] = nextId]
  /\ nextId' = nextId + 1
  /\ ppc' = [ppc EXCEPT ![p] = "stat_read"]
  /\ UNCHANGED <<clientVars, now, submittedStat, psubmitted, ptmp, calls,
                 accepted, rejected, workerVars, outcomeVars>>

\* self.stats.submitted += 1: the attribute is loaded ...
EnqueueStatRead(p) ==
  /\ ppc[p] = "stat_read"
  /\ ptmp' = [ptmp EXCEPT ![p] = submittedStat]
  /\ ppc' = [ppc EXCEPT ![p] = "stat_write"]
  /\ UNCHANGED <<queue, unfinished, clientVars, now, submittedStat,
                 psubmitted, pevent, calls, accepted, rejected, nextId,
                 workerVars, outcomeVars>>

\* ... and stored; submitted = True
EnqueueStatWrite(p) ==
  /\ ppc[p] = "stat_write"
  /\ submittedStat' = ptmp[p] + 1
  /\ psubmitted' = [psubmitted EXCEPT ![p] = TRUE]
  /\ ppc' = [ppc EXCEPT ![p] = "should_flush"]
  /\ UNCHANGED <<queue, unfinished, clientVars, now, ptmp, pevent, calls,
                 accepted, rejected, nextId, workerVars, outcomeVars>>

\* the times datetime.now() can return in _should_flush: none earlier than
\* the one it returned before; the clock is read only when last_flushed
\* is set
ClockReads(lf, t) == IF lf = NoTime THEN {t} ELSE t..MaxTime

\* if self._should_flush(): self.flush() -- else return submitted
EnqueueShouldFlush(p) ==
  /\ ppc[p] = "should_flush"
  /\ \E t \in ClockReads(last_flushed, now) :
       /\ now' = t
       /\ IF ShouldFlush(QueueDepth(queue), last_flushed, t)
            THEN /\ ppc' = [ppc EXCEPT ![p] = "join"]
                 /\ UNCHANGED <<psubmitted, ptmp, pevent, accepted, rejected>>
            ELSE EnqueueReturn(p)
  /\ UNCHANGED <<queue, unfinished, clientVars, submittedStat, calls,
                 nextId, workerVars, outcomeVars>>

\* Queue.join() waits until unfinished_tasks is 0
JoinCanReturn(u) == u = 0

\* Client.flush: queue.join() returns; then _enqueue returns submitted
FlushJoin(p) ==
  /\ ppc[p] = "join"
  /\ JoinCanReturn(unfinished)
  /\ EnqueueReturn(p)
  /\ UNCHANGED <<queue, unfinished, clientVars, now, submittedStat, calls,
                 nextId, workerVars, outcomeVars>>

\* ... and stored; track returns
TrackStatWrite(p) ==
  /\ ppc[p] = "kind_write"
  /\ tracksStat' = ptmp[p] + 1
  /\ ptmp' = [ptmp EXCEPT ![p] = 0]
  /\ ppc' = [ppc EXCEPT ![p] = "idle"]
  /\ UNCHANGED <<queue, unfinished, clientVars, now, submittedStat,
                 psubmitted, pevent, calls, accepted, rejected, nextId,
                 workerVars, successCalls, failureCalls, successfulStat,
                 failedStat>>

\* --------------------------------------------------------- the consumer
\* Consumer.run, the thread's body, entered before anything else the
\* consumer does: log('debug', ...) raises TypeError and the loop around
\* self.upload() is never reached
Run ==
  /\ wpc = "idle"
  /\ result = "none"
  /\ wpc' = "dead"
  /\ UNCHANGED <<queue, unfinished, clientVars, now, submittedStat,
                 producerVars, nextId, items, attempt, posts, marked,
                 batches, result, atStart, outcomeVars>>

\* Consumer.upload is called (as analytics/test/consumer.py does, on the
\* caller's thread); success = False; self.next() is entered
UploadCall ==
  /\ wpc = "idle"
  /\ wpc' = "next_first"
  /\ items' = <<>>
  /\ attempt' = 0
  /\ posts' = 0
  /\ marked' = 0
  /\ atStart' = Outcomes(successCalls, failureCalls, successfulStat, failedStat)
  /\ UNCHANGED <<queue, unfinished, clientVars, now, submittedStat,
                 producerVars, nextId, batches, result, outcomeVars>>

\* Consumer.next: item = queue.get(block=True); items = [item]
NextFirst ==
  /\ wpc = "next_first"
  /\ ~QueueEmpty(queue)
  /\ items' = <<QueueGetItem(queue)>>
  /\ queue' = QueueGetRest(queue)
  /\ wpc' = "next_loop"
  /\ UNCHANGED <<unfinished, clientVars, now, submittedStat, producerVars,
                 nextId, attempt, posts, marked, batches, result,
                 atStart, outcomeVars>>

\* the loop's test with the size limit off by one
NextContinuesOneMore(its, q) == Len(its) <= UploadSize /\ ~QueueEmpty(q)

\* the loop's test without `and not queue.empty()`
NextContinuesIgnoringEmpty(its, q) == Len(its) < UploadSize

\* while len(items) < self.upload_size and not queue.empty()
NextContinues(its, q) == Len(its) < UploadSize /\ ~QueueEmpty(q)

\* Consumer.next: the loop's test; when it fails, return items
NextLoop ==
  /\ wpc = "next_loop"
  /\ IF NextContinues(items, queue)
       THEN /\ wpc' = "next_get"
            /\ UNCHANGED batches
       ELSE /\ wpc' = "request"
            /\ batches' = Append(batches, items)
  /\ UNCHANGED <<queue, unfinished, clientVars, now, submittedStat,
                 producerVars, nextId, items, attempt, posts, marked,
                 result, atStart, outcomeVars>>

\* Consumer.next: items.append(queue.get(block=True))
NextGet ==
  /\ wpc = "next_get"
  /\ ~QueueEmpty(queue)
  /\ items' = Append(items, QueueGetItem(queue))
  /\ queue' = QueueGetRest(queue)
  /\ wpc' = "next_loop"
  /\ UNCHANGED <<unfinished, clientVars, now, submittedStat, producerVars,
                 nextId, attempt, posts, marked, batches, result,
                 atStart, outcomeVars>>

\* Consumer.request's `if attempt > self.retries: raise`
RequestGivesUp(a) == a > Retries

\* Consumer.request: one post(); it returns (HTTP 200) or raises
Request ==
  /\ wpc = "request"
  /\ \E ok \in BOOLEAN :
       IF ok
         THEN \* request returns; success = True; the task_done loop
              /\ wpc' = "task_done"
              /\ posts' = posts + 1
              /\ UNCHANGED <<attempt, result>>
         ELSE IF RequestGivesUp(attempt)
           THEN \* re-raised to upload, whose except clause calls
                \* log('error'): TypeError leaves upload
                /\ wpc' = "idle"
                /\ result' = "raised"
                /\ posts' = posts + 1
                /\ UNCHANGED attempt
           ELSE \* self.request(batch, attempt+1)
                /\ attempt' = attempt + 1
                /\ posts' = posts + 1
                /\ UNCHANGED <<wpc, result>>
  /\ UNCHANGED <<queue, unfinished, clientVars, now, submittedStat,
                 producerVars, nextId, items, marked, batches, atStart,
                 outcomeVars>>

\* Consumer.upload: for item in batch: self.queue.task_done(); return success
TaskDone ==
  /\ wpc = "task_done"
  /\ IF marked < Len(items)
       THEN /\ unfinished' = unfinished - 1
            /\ marked' = marked + 1
            /\ UNCHANGED <<wpc, result, attempt, posts>>
       ELSE /\ wpc' = "idle"
            /\ result' = "true"
            /\ UNCHANGED <<unfinished, marked, attempt, posts>>
  /\ UNCHANGED <<queue, clientVars, now, submittedStat, producerVars, nextId,
                 items, batches, atStart, outcomeVars>>

Producer(p) ==
  \/ TrackCall(p)
  \/ EnqueueCheck(p)
  \/ EnqueueAppend(p)
  \/ EnqueueStatRead(p)
  \/ EnqueueStatWrite(p)
  \/ EnqueueShouldFlush(p)
  \/ FlushJoin(p)
  \/ TrackStatWrite(p)

Worker ==
  \/ Run
  \/ UploadCall
  \/ NextFirst
  \/ NextLoop
  \/ NextGet
  \/ Request
  \/ TaskDone

Next ==
  \/ \E p \in Producers : Producer(p)
  \/ Worker

Spec == Init /\ [][Next]_vars

\* Every thread that can take a step eventually takes one; whoever drives
\* the consumer keeps calling it.
FairSpec ==
  /\ Spec
  /\ WF_vars(Worker)
  /\ \A p \in Producers : WF_vars(Producer(p))

\* --------------------------------------------------------------- claims
RECURSIVE Flatten(_)
Flatten(bs) == IF bs = <<>> THEN <<>> ELSE Head(bs) \o Flatten(Tail(bs))

\* the events Consumer.next holds and has not returned yet
InNext == IF wpc \in {"next_loop", "next_get"} THEN items ELSE <<>>

\* the events put on the queue so far, in the order they were put
PutOrder == [i \in 1..(nextId - 1) |-> i]

\* C1: the number of events held in the queue never exceeds max_queue_size,
\* whatever the interleaving of the producers' _enqueue calls and the
\* consumer.
C1_CapacityNeverExceeded == Len(queue) <= MaxQueueSize

\* Two producers passed _enqueue's depth test together; one has put its
\* event and filled the queue while the other is still about to put.
C1_Witness ==
  \E p \in Producers : ppc[p] = "append" /\ Len(queue) = MaxQueueSize

\* C2: the batches Consumer.next returned, concatenated in the order they
\* were returned and followed by what next holds and what the queue still
\* holds, list every event put on the queue exactly once and in the order
\* of the puts: no event is in two batches, none is skipped, none is
\* re-ordered.
C2_BatchesInEnqueueOrder == Flatten(batches) \o InNext \o queue = PutOrder

\* Two batches were returned, the first of them with two events.
C2_Witness == Len(batches) >= 2 /\ Len(batches[1]) >= 2

Range(f) == {f[i] : i \in DOMAIN f}

\* the upload of the batch holding event e has ended (returned or raised)
Finished(e) ==
  /\ e \in Range(Flatten(batches))
  /\ ~(wpc \in {"request", "task_done"} /\ e \in Range(items))

\* C3: with every thread scheduled fairly and every post() ending, every
\* event whose _enqueue returned True is eventually in a batch whose
\* delivery has finished, delivered or terminally failed.
C3_AcceptedEventuallyFinished ==
  \A e \in 1..MaxCalls : (e \in accepted) ~> Finished(e)

\* C4: the attempt counter never exceeds retries, and a delivery that fails
\* on every attempt has made exactly retries + 1 post() calls when it gives
\* up.
C4_AttemptsWithinRetries ==
  /\ attempt <= Retries
  /\ (wpc = "idle" /\ result = "raised") => posts = Retries + 1

\* C5: when an upload has ended in terminal failure, a registered failure
\* callback has been invoked exactly once since that upload began, and the
\* batch's events are neither back on the queue nor in another batch.
C5_FailureCallbackOncePerBatch ==
  (wpc = "idle" /\ result = "raised")
    => /\ failureCalls = atStart.failureCalls + 1
       /\ \A e \in Range(items) :
            /\ e \notin Range(queue)
            /\ Cardinality({i \in 1..Len(batches) : e \in Range(batches[i])}) = 1

\* C6: when an upload has ended with a delivery that succeeded within
\* retries + 1 attempts, a registered success callback has been invoked
\* exactly once since that upload began, no failure callback has, and
\* stats.successful has grown by the length of the batch.
C6_SuccessCallbackOncePerBatch ==
  (wpc = "idle" /\ result = "true" /\ posts <= Retries + 1)
    => /\ successCalls = atStart.successCalls + 1
       /\ failureCalls = atStart.failureCalls
       /\ successfulStat = atStart.successful + Len(items)

\* C7: an upload that has ended, by success or by terminal failure, has
\* called task_done once per event of its batch; so between uploads the
\* queue's unfinished count equals the number of events in the queue.
C7_TaskDonePerEvent ==
  wpc = "idle"
    => /\ result # "none" => marked = Len(items)
       /\ unfinished = Len(queue)

\* C8: with every thread scheduled fairly and every post() ending, a
\* producer that is inside Client.flush eventually leaves it.
C8_FlushEventuallyReturns ==
  \A p \in Producers : (ppc[p] = "join") ~> (ppc[p] = "idle")

\* C9: a producer inside _enqueue is never waiting: whenever it is at the
\* queue's insertion or inside flush, its next step can be taken at once.
C9_ProducersNeverWait ==
  \A p \in Producers :
    /\ ppc[p] = "append" => QueueCanPut(queue)
    /\ ppc[p] = "join" => JoinCanReturn(unfinished)

\* C10: when Consumer.next returns, its batch is not empty and holds at
\* most upload_size events, and it holds fewer than upload_size only if the
\* queue was empty at the loop test that ended it.
C10_NextBatchBounds ==
  [][(wpc = "next_loop" /\ wpc' = "request")
       => /\ Len(items) >= 1
          /\ Len(items) <= UploadSize
          /\ (Len(items) < UploadSize => QueueEmpty(queue))]_vars

\* next has returned a partial batch (the queue was empty) and a full one.
C10_Witness ==
  /\ \E i \in 1..Len(batches) : Len(batches[i]) < UploadSize
  /\ \E i \in 1..Len(batches) : Len(batches[i]) = UploadSize

\* C11: a producer whose event _enqueue refused because the queue was full
\* has put nothing on the queue and is never waiting: if it is inside flush,
\* queue.join() can return at once.
C11_FullQueueRejectionDoesNotBlock ==
  \A p \in Producers :
    (ppc[p] \in {"should_flush", "join"} /\ ~psubmitted[p])
      => /\ pevent[p] = 0
         /\ ppc[p] = "join" => JoinCanReturn(unfinished)

\* _should_flush returns in this step for producer p
ShouldFlushReturns(p) == ppc[p] = "should_flush" /\ ppc'[p] # "should_flush"

C15_SendFalseDoesNothing ==
  ~send
    => /\ accepted = {}
       /\ queue = <<>> /\ nextId = 1 /\ unfinished = 0
       /\ batches = <<>> /\ posts = 0
       /\ \A p \in Producers : ppc[p] = "idle"
       /\ submittedStat = 0 /\ tracksStat = 0

\* With send false and a write key set, every call allowed was made, one
\* of them at least returned False, and an upload is waiting on the queue.
C15_Witness ==
  ~send /\ write_key /\ calls = MaxCalls /\ rejected >= 1 /\ wpc = "next_first"

\* C16: when an upload has ended in terminal failure, stats.failed has grown
\* or a failure callback has been invoked since that upload began.
C16_TerminalFailureRecorded ==
  (wpc = "idle" /\ result = "raised")
    => \/ failedStat > atStart.failed
       \/ failureCalls > atStart.failureCalls

\* C17: once every call has returned, stats.submitted equals the number of
\* calls that returned True, and so does the per-kind counter stats.tracks.
C17_NoLostStatsUpdate ==
  (\A p \in Producers : ppc[p] = "idle")
    => /\ submittedStat = Cardinality(accepted)
       /\ tracksStat = Cardinality(accepted)

\* a track call raises in this step: a call is counted and no producer
\* moves, no call returns False
TrackRaises ==
  calls' = calls + 1 /\ ppc' = ppc /\ rejected' = rejected

\* C18: a track call that raises for a missing write key or a bad argument
\* leaves the queue, its unfinished count, every stats counter and every
\* producer (none enters flush) as they were.
C18_ValidationErrorChangesNothing ==
  [][TrackRaises
       => /\ queue' = queue /\ unfinished' = unfinished /\ nextId' = nextId
          /\ submittedStat' = submittedStat
          /\ outcomeVars' = outcomeVars
          /\ producerVars' = [producerVars EXCEPT ![5] = calls']]_vars

\* Every call allowed was made with a write key set and send true, one
\* event was put and is on the queue, no call returned False and nobody
\* is inside a call: the other calls raised.
C18_Witness ==
  /\ write_key /\ send
  /\ calls = MaxCalls
  /\ nextId = 2 /\ Len(queue) = 1
  /\ rejected = 0
  /\ \A p \in Producers : ppc[p] = "idle"

\* C19: an upload that has ended has returned True or False to its caller:
\* it never ends by an exception.
C19_UploadReturnsBoolean ==
  (wpc = "idle" /\ result # "none") => result \in {"true", "false"}

\* C20: every get inside next's drain loop is executed with the queue
\* non-empty: next never waits after it has taken its first event.
C20_NextBlocksOnlyOnFirstGet ==
  (wpc = "next_get") => (~QueueEmpty(queue) /\ Len(items) >= 1)

\* next is about to take a second event while the queue holds two.
C20_Witness == wpc = "next_get" /\ Len(items) = 1 /\ Len(queue) = 2

\* the upload of the batch holding event e has ended and has called
\* task_done for every event of that batch
MarkedDone(e) ==
  wpc = "idle" /\ e \in Range(items) /\ marked = Len(items)

\* C21: with every thread scheduled fairly and every post() ending, once an
\* upload has ended in terminal failure the consumer goes on: every event
\* on the queue from then on is eventually dequeued, attempted and marked
\* done.
C21_WorkerSurvivesTerminalFailure ==
  \A e \in 1..MaxCalls :
    (result = "raised" /\ e \in Range(queue)) ~> MarkedDone(e)
=============================================================================
